---- MODULE Spec2Model ----
(***************************************************************************)
(* Process lifecycle supervisor of gpustack/utils/process.py:              *)
(*   - the termination gate (termination_signal_handled) and the shutdown  *)
(*     signal (threading_stop_event),                                      *)
(*   - the signal coordinator (add_signal_handlers[_in_loop]),             *)
(*   - the shutdown sequencer (shutdown_event_loop) on the asyncio loop,   *)
(*   - the process tree terminator (terminate_process_tree and helpers),   *)
(*   - the parent liveness monitor (monitor_loop).                         *)
(*                                                                         *)
(* A "context" is one flow of control that may end up inside               *)
(* handle_termination_signal: a synchronous invocation of the handler, or  *)
(* a shutdown_event_loop task.  Direct contexts interleave statement by    *)
(* statement (invocations from different threads, and a handler that a     *)
(* nested handler interrupts); loop tasks are serialised by the            *)
(* single-threaded event loop.  psutil is the environment: a process may   *)
(* exit at any moment, signalling a process of `denied` raises             *)
(* AccessDenied, enumeration may fail with an unexpected error.            *)
(***************************************************************************)
EXTENDS Integers, Sequences, FiniteSets, TLC

\* ------------------------------------------------------------------ bounds
NumCtx == 2        \* contexts (handler invocations, sequencer tasks) of the host
NumChildren == 2   \* descendants of the root
NumTasks == 1      \* application tasks on the event loop

Ctx == 1..NumCtx
Children == 1..NumChildren
Tasks == 1..NumTasks
Root == 0
Procs == {Root} \cup Children

Signals == {"SIGINT", "SIGTERM"}
Intervals == {-1, 0, 1}

VARIABLES
  platform,                    \* platform.system(): "windows" or "posix"
  handlers,                    \* signal -> "default" | "direct" | "loop"
  termination_signal_handled,  \* the termination gate
  threading_stop_event,        \* the shutdown signal
  host,                        \* "running" | "exit0" | "exit1" | "killed"
  selfRoot,                    \* the tree's root is the host process itself
  procs,                       \* process -> "running" | "gone"
  denied,                      \* processes whose signalling raises AccessDenied
  kind,                        \* context -> "none" | "direct" | "seq"
  pc,                          \* context -> position in the code
  sigArg,                      \* context -> the `signal` argument it was given
  delivered,                   \* context -> the signal that was delivered (history)
  gateAtCall,                  \* context -> gate value when the trigger was called (history)
  children,                    \* context -> process.children(recursive=True)
  alive,                       \* context -> `alive` of psutil.wait_procs
  todo,                        \* context -> processes the current for loop has yet to visit
  log,                         \* context -> requests issued by its terminate_process_tree (history)
  exc,                         \* context -> exception that ended its terminate_process_tree
  outcome,                     \* context -> "" | "returned" | "raised" | "cancelled"
  treeRuns,                    \* number of executions of terminate_process_tree (history)
  tstate,                      \* application task -> "unborn" | "pending" | "done"
  cancelReq,                   \* application task -> task.cancel() was called on it
  seqCancel,                   \* context -> task.cancel() was called on this sequencer task
  awaitApp,                    \* context -> application tasks its gather awaits
  awaitSeq,                    \* context -> sequencer tasks its gather awaits
  pendingAtEnum,               \* context -> application tasks pending when it ran line 43 (history)
  monPc,                       \* monitor_loop position
  interval,                    \* monitor_loop's check_interval
  lastCheck                    \* outcome of the parent check of the current iteration (history)

sharedVars == <<termination_signal_handled, threading_stop_event, host>>
setupVars == <<platform, handlers, selfRoot, denied>>
procVars == <<procs>>
ctxVars == <<kind, pc, sigArg, delivered, gateAtCall, children, alive, todo, log,
             exc, outcome, treeRuns>>
loopVars == <<tstate, cancelReq, seqCancel, awaitApp, awaitSeq, pendingAtEnum>>
monVars == <<monPc, interval, lastCheck>>
vars == <<sharedVars, setupVars, procVars, ctxVars, loopVars, monVars>>

\* ----------------------------------------------------------------- helpers
Min(S) == CHOOSE x \in S : \A y \in S : x <= y

Running(P) == {p \in P : procs[p] = "running"}

\* Code positions inside terminate_process_tree (lines 71-83).
TreePcs == {"resolve", "enum", "term", "wait", "kill", "isrunning", "rterm",
            "rwait", "rkill"}
\* Code positions inside handle_termination_signal (lines 60-67).
HandlerPcs == {"read", "write", "set"} \cup TreePcs
\* Synchronous code of a loop task: while a sequencer is here the loop runs
\* nothing else.
SyncPcs == {"cancel"} \cup HandlerPcs

LoopBusy == \E c \in Ctx : kind[c] = "seq" /\ pc[c] \in SyncPcs

\* Contexts are interchangeable: a new flow of control takes the lowest unused one.
Free(c) == kind[c] = "none" /\ \A d \in Ctx : d < c => kind[d] # "none"

Ev(k, p) == <<k, p>>
Has(c, k, p) == \E i \in 1..Len(log[c]) : log[c][i] = Ev(k, p)
Pos(c, k, p) == Min({i \in 1..Len(log[c]) : log[c][i] = Ev(k, p)})

\* ------------------------------------------------------------- environment
\* psutil exception classes the code names, and "Error" for any other
\* subclass of Exception.
Exceptions == {"NoSuchProcess", "AccessDenied", "TimeoutExpired", "Error"}

\* A process other than the running host exits on its own (before, during or
\* after any step of a termination pass).  What the processes do once the
\* host has ended is not followed.
ProcExit(p) ==
  /\ host = "running"
  /\ procs[p] = "running"
  /\ p = Root => ~selfRoot
  /\ procs' = [procs EXCEPT ![p] = "gone"]
  /\ UNCHANGED <<sharedVars, setupVars, ctxVars, loopVars, monVars>>

\* psutil's Process.terminate(): SIGTERM on POSIX, which the target may
\* ignore; on Windows an alias of kill(), which ends the target at once.
AfterTerminate(p) ==
  IF platform = "windows" THEN [procs EXCEPT ![p] = "gone"] ELSE procs

\* psutil's Process.kill(): the target is gone.
AfterKill(p) == [procs EXCEPT ![p] = "gone"]

\* ------------------------------------------------ terminate_process_tree
\* A handler for the vanished process only.
TreeCatchesNoSuchProcessOnly(e) == e = "NoSuchProcess"

\* except psutil.NoSuchProcess: pass / except Exception as e: logger.error
TreeCatches(e) == e = "NoSuchProcess" \/ e \in Exceptions

\* terminate_process_tree returns (e = "none") or an exception e reaches its
\* try block; handle_termination_signal has no handler of its own.
TreeEnd(c, e) ==
  /\ pc' = [pc EXCEPT ![c] = "done"]
  /\ exc' = [exc EXCEPT ![c] = e]
  /\ outcome' = [outcome EXCEPT ![c] =
                   IF e = "none" \/ TreeCatches(e) THEN "returned" ELSE "raised"]

\* line 72: process = psutil.Process(pid)
Resolve(c) ==
  /\ host = "running" /\ pc[c] = "resolve"
  /\ IF procs[Root] = "gone"
       THEN TreeEnd(c, "NoSuchProcess")
       ELSE /\ pc' = [pc EXCEPT ![c] = "enum"]
            /\ UNCHANGED <<exc, outcome>>
  /\ UNCHANGED <<sharedVars, setupVars, procVars, loopVars, monVars, kind, sigArg,
                 delivered, gateAtCall, children, alive, todo, log, treeRuns>>

\* The root handled before its descendants.
RootFirst(found) == "isrunning"

\* The step after the descendants are known: terminate_processes(children)
\* first (line 76), terminate_process(process) after it (line 79).
AfterEnumerate(found) == IF found = {} THEN "wait" ELSE "term"

\* line 73: children = process.children(recursive=True)
Enumerate(c) ==
  /\ host = "running" /\ pc[c] = "enum"
  /\ \E fails \in BOOLEAN :
       IF procs[Root] = "gone" \/ fails
         THEN /\ TreeEnd(c, IF procs[Root] = "gone" THEN "NoSuchProcess" ELSE "Error")
              /\ UNCHANGED <<children, todo>>
         ELSE /\ children' = [children EXCEPT ![c] = Running(Children)]
              /\ todo' = [todo EXCEPT ![c] = Running(Children)]
              /\ pc' = [pc EXCEPT ![c] = AfterEnumerate(Running(Children))]
              /\ UNCHANGED <<exc, outcome>>
  /\ UNCHANGED <<sharedVars, setupVars, procVars, loopVars, monVars, kind, sigArg,
                 delivered, gateAtCall, alive, log, treeRuns>>

\* Loops without their except clause.
LoopCatchesNothing(e) == FALSE
KillLoopCatchesNothing(e) == FALSE

\* What the first loop of terminate_processes does with an exception of
\* proc.terminate(): except psutil.NoSuchProcess: continue (lines 94-95).
TerminateLoopCatches(e) == e = "NoSuchProcess"

\* What the second loop does with an exception of proc.kill() (lines 102-103).
KillLoopCatches(e) == e = "NoSuchProcess"

\* The result of signalling process p: an exception class, or "ok".
SignalResult(p) ==
  IF procs[p] = "gone" THEN "NoSuchProcess"
  ELSE IF p \in denied THEN "AccessDenied"
  ELSE "ok"

\* A wait, and the kills, after each terminate request.
WaitPerProcess(rest) == "wait"

\* lines 91-98: the for loop goes on while processes are left to visit; the
\* one wait of line 98 comes after the loop.
AfterTerminateStep(rest) == IF rest = {} THEN "wait" ELSE "term"

\* lines 91-95: one iteration of  for proc in processes: proc.terminate()
TerminateStep(c) ==
  /\ host = "running" /\ pc[c] = "term" /\ todo[c] # {}
  /\ LET p == Min(todo[c])
         r == SignalResult(p)
         rest == todo[c] \ {p}
     IN IF r = "ok"
          THEN /\ log' = [log EXCEPT ![c] = Append(@, Ev("terminate", p))]
               /\ procs' = AfterTerminate(p)
               /\ todo' = [todo EXCEPT ![c] = rest]
               /\ pc' = [pc EXCEPT ![c] = AfterTerminateStep(rest)]
               /\ UNCHANGED <<exc, outcome>>
          ELSE IF TerminateLoopCatches(r)
          THEN /\ log' = [log EXCEPT ![c] = Append(@, Ev("terminate_gone", p))]
               /\ todo' = [todo EXCEPT ![c] = rest]
               /\ pc' = [pc EXCEPT ![c] = AfterTerminateStep(rest)]
               /\ UNCHANGED <<procs, exc, outcome>>
          ELSE /\ log' = [log EXCEPT ![c] = Append(@, Ev("terminate_failed", p))]
               /\ TreeEnd(c, r)
               /\ UNCHANGED <<procs, todo>>
  /\ UNCHANGED <<sharedVars, setupVars, loopVars, monVars, kind, sigArg, delivered,
                 gateAtCall, children, alive, treeRuns>>

\* `alive` of psutil.wait_procs(processes, timeout=3): the processes still
\* running when the wait returns, which is when all have exited or the grace
\* period is over.
StillAlive(c) == Running(children[c])

\* line 98: _, alive = psutil.wait_procs(processes, timeout=3)
WaitProcs(c) ==
  /\ host = "running" /\ pc[c] = "wait"
  /\ alive' = [alive EXCEPT ![c] = StillAlive(c)]
  /\ todo' = [todo EXCEPT ![c] = StillAlive(c)]
  /\ log' = [log EXCEPT ![c] = Append(@, Ev("wait_procs", Root))]
  /\ pc' = [pc EXCEPT ![c] = IF StillAlive(c) = {} THEN "isrunning" ELSE "kill"]
  /\ UNCHANGED <<sharedVars, setupVars, procVars, loopVars, monVars, kind, sigArg,
                 delivered, gateAtCall, children, exc, outcome, treeRuns>>

\* lines 99-103: one iteration of  for proc in alive: proc.kill()
KillStep(c) ==
  /\ host = "running" /\ pc[c] = "kill" /\ todo[c] # {}
  /\ LET p == Min(todo[c])
         r == SignalResult(p)
         rest == todo[c] \ {p}
     IN IF r = "ok"
          THEN /\ log' = [log EXCEPT ![c] = Append(@, Ev("kill", p))]
               /\ procs' = AfterKill(p)
               /\ todo' = [todo EXCEPT ![c] = rest]
               /\ pc' = [pc EXCEPT ![c] = IF rest = {} THEN "isrunning" ELSE "kill"]
               /\ UNCHANGED <<exc, outcome>>
          ELSE IF KillLoopCatches(r)
          THEN /\ log' = [log EXCEPT ![c] = Append(@, Ev("kill_gone", p))]
               /\ todo' = [todo EXCEPT ![c] = rest]
               /\ pc' = [pc EXCEPT ![c] = IF rest = {} THEN "isrunning" ELSE "kill"]
               /\ UNCHANGED <<procs, exc, outcome>>
          ELSE /\ log' = [log EXCEPT ![c] = Append(@, Ev("kill_failed", p))]
               /\ TreeEnd(c, r)
               /\ UNCHANGED <<procs, todo>>
  /\ UNCHANGED <<sharedVars, setupVars, loopVars, monVars, kind, sigArg, delivered,
                 gateAtCall, children, alive, treeRuns>>

\* ------------------------------------------------------ terminate_process
\* SIGTERM sent by the host to itself ends it unless a Python-level handler
\* replaced the default action; on Windows terminate() is TerminateProcess.
SelfTerminateEndsHost ==
  selfRoot /\ (platform = "windows" \/ handlers["SIGTERM"] = "default")

\* line 111: if process.is_running():
IsRunning(c) ==
  /\ host = "running" /\ pc[c] = "isrunning"
  /\ IF procs[Root] = "running"
       THEN /\ pc' = [pc EXCEPT ![c] = "rterm"]
            /\ UNCHANGED <<exc, outcome>>
       ELSE TreeEnd(c, "none")
  /\ UNCHANGED <<sharedVars, setupVars, procVars, loopVars, monVars, kind, sigArg,
                 delivered, gateAtCall, children, alive, todo, log, treeRuns>>

\* lines 115-117 of terminate_process: NoSuchProcess is passed over,
\* TimeoutExpired leads to kill(); anything else leaves the function.
SingleCatches(e) == e \in {"NoSuchProcess", "TimeoutExpired"}

\* line 113: process.terminate()
RootTerminate(c) ==
  /\ host = "running" /\ pc[c] = "rterm"
  /\ LET r == SignalResult(Root)
     IN IF r = "ok"
          THEN /\ log' = [log EXCEPT ![c] = Append(@, Ev("terminate", Root))]
               /\ IF SelfTerminateEndsHost
                    THEN /\ host' = "killed"
                         /\ procs' = [procs EXCEPT ![Root] = "gone"]
                    ELSE /\ host' = host
                         /\ procs' = AfterTerminate(Root)
               /\ pc' = [pc EXCEPT ![c] = "rwait"]
               /\ UNCHANGED <<exc, outcome>>
          ELSE /\ log' = [log EXCEPT ![c] = Append(@,
                         Ev(IF r = "NoSuchProcess" THEN "terminate_gone"
                                                   ELSE "terminate_failed", Root))]
               /\ TreeEnd(c, IF SingleCatches(r) THEN "none" ELSE r)
               /\ UNCHANGED <<host, procs>>
  /\ UNCHANGED <<termination_signal_handled, threading_stop_event, setupVars,
                 loopVars, monVars, kind, sigArg, delivered, gateAtCall, children,
                 alive, todo, treeRuns>>

\* line 114: process.wait(timeout=3): returns when the process has exited,
\* raises TimeoutExpired when it is still running after the grace period.
RootWait(c) ==
  /\ host = "running" /\ pc[c] = "rwait"
  /\ IF procs[Root] = "gone"
       THEN /\ TreeEnd(c, "none")
            /\ UNCHANGED log
       ELSE /\ log' = [log EXCEPT ![c] = Append(@, Ev("wait_timeout", Root))]
            /\ pc' = [pc EXCEPT ![c] = "rkill"]
            /\ UNCHANGED <<exc, outcome>>
  /\ UNCHANGED <<sharedVars, setupVars, procVars, loopVars, monVars, kind, sigArg,
                 delivered, gateAtCall, children, alive, todo, treeRuns>>

\* lines 118-121: process.kill() under except psutil.NoSuchProcess: pass
RootKill(c) ==
  /\ host = "running" /\ pc[c] = "rkill"
  /\ LET r == SignalResult(Root)
     IN IF r = "ok"
          THEN /\ log' = [log EXCEPT ![c] = Append(@, Ev("kill", Root))]
               /\ procs' = AfterKill(Root)
               /\ host' = IF selfRoot THEN "killed" ELSE host
               /\ TreeEnd(c, "none")
          ELSE /\ log' = [log EXCEPT ![c] = Append(@,
                         Ev(IF r = "NoSuchProcess" THEN "kill_gone"
                                                   ELSE "kill_failed", Root))]
               /\ TreeEnd(c, IF r = "NoSuchProcess" THEN "none" ELSE r)
               /\ UNCHANGED <<host, procs>>
  /\ UNCHANGED <<termination_signal_handled, threading_stop_event, setupVars,
                 loopVars, monVars, kind, sigArg, delivered, gateAtCall, children,
                 alive, todo, treeRuns>>

\* The steps of one execution of terminate_process_tree (lines 70-83).
TreeStep(c) ==
  \/ Resolve(c)
  \/ Enumerate(c)
  \/ TerminateStep(c)
  \/ WaitProcs(c)
  \/ KillStep(c)
  \/ IsRunning(c)
  \/ RootTerminate(c)
  \/ RootWait(c)
  \/ RootKill(c)

\* ------------------------------------------- handle_termination_signal
\* A context enters handle_termination_signal with `signal` argument s.
Enter(c, k, s, d) ==
  /\ kind' = [kind EXCEPT ![c] = k]
  /\ pc' = [pc EXCEPT ![c] = "read"]
  /\ sigArg' = [sigArg EXCEPT ![c] = s]
  /\ delivered' = [delivered EXCEPT ![c] = d]
  /\ gateAtCall' = [gateAtCall EXCEPT ![c] = termination_signal_handled]

\* Signal s arrives and signal.signal's handler (line 19) runs
\* handle_termination_signal(s, frame).
SignalDirect(c, s) ==
  /\ host = "running" /\ Free(c)
  /\ handlers[s] = "direct"
  /\ Enter(c, "direct", s, s)
  /\ UNCHANGED <<sharedVars, setupVars, procVars, loopVars, monVars, children,
                 alive, todo, log, exc, outcome, treeRuns>>

\* A gate that is never looked at.
GateNeverBlocks(g) == FALSE

\* line 60: if termination_signal_handled: return
GateBlocks(g) == g

\* lines 60-61: the read of the gate
ReadGate(c) ==
  /\ host = "running" /\ pc[c] = "read"
  /\ IF GateBlocks(termination_signal_handled)
       THEN /\ pc' = [pc EXCEPT ![c] = "done"]
            /\ outcome' = [outcome EXCEPT ![c] = "returned"]
       ELSE /\ pc' = [pc EXCEPT ![c] = "write"]
            /\ UNCHANGED outcome
  /\ UNCHANGED <<sharedVars, setupVars, procVars, loopVars, monVars, kind, sigArg,
                 delivered, gateAtCall, children, alive, todo, log, exc, treeRuns>>

\* A write that flips the gate.
GateFlipped(g) == ~g

\* line 62: the value the gate holds after the assignment, whatever it held.
GateWritten(g) == TRUE

\* line 62: termination_signal_handled = True
WriteGate(c) ==
  /\ host = "running" /\ pc[c] = "write"
  /\ termination_signal_handled' = GateWritten(termination_signal_handled)
  /\ pc' = [pc EXCEPT ![c] = "set"]
  /\ UNCHANGED <<threading_stop_event, host, setupVars, procVars, loopVars, monVars,
                 kind, sigArg, delivered, gateAtCall, children, alive, todo, log, exc,
                 outcome, treeRuns>>

\* A trigger that leaves the shutdown signal as it found it.
EventUntouched(ev) == ev

\* line 64: threading_stop_event.set()
EventAtTrigger(ev) == TRUE

\* lines 64-67: threading_stop_event.set(); terminate_process_tree(os.getpid())
SetEvent(c) ==
  /\ host = "running" /\ pc[c] = "set"
  /\ threading_stop_event' = EventAtTrigger(threading_stop_event)
  /\ pc' = [pc EXCEPT ![c] = "resolve"]
  /\ treeRuns' = treeRuns + 1
  /\ UNCHANGED <<termination_signal_handled, host, setupVars, procVars, loopVars,
                 monVars, kind, sigArg, delivered, gateAtCall, children, alive, todo,
                 log, exc, outcome>>

HandlerStep(c) ==
  \/ ReadGate(c)
  \/ WriteGate(c)
  \/ SetEvent(c)
  \/ TreeStep(c)

\* ------------------------------------------------------ signal coordinator
\* line 19: signal.signal(signal.SIGTERM, handle_termination_signal)
DirectHandlers == [handlers EXCEPT !["SIGTERM"] = "direct"]

\* lines 30-34: loop.add_signal_handler for SIGINT and SIGTERM
LoopHandlers == [s \in Signals |-> "loop"]

\* lines 18-19: add_signal_handlers()
AddSignalHandlers ==
  /\ host = "running"
  /\ \A s \in Signals : handlers[s] = "default"
  /\ handlers' = DirectHandlers
  /\ UNCHANGED <<sharedVars, platform, selfRoot, denied, procVars, ctxVars,
                 loopVars, monVars>>

\* The loop's handlers on every platform.
RegistrationInLoopAlways(pf) == LoopHandlers

\* lines 23-34: on Windows add_signal_handlers() and return, elsewhere the
\* loop's handlers.
RegistrationInLoop(pf) == IF pf = "windows" THEN DirectHandlers ELSE LoopHandlers

\* lines 22-34: add_signal_handlers_in_loop()
AddSignalHandlersInLoop ==
  /\ host = "running"
  /\ \A s \in Signals : handlers[s] = "default"
  /\ handlers' = RegistrationInLoop(platform)
  /\ UNCHANGED <<sharedVars, platform, selfRoot, denied, procVars, ctxVars,
                 loopVars, monVars>>

\* line 33: the lambda reads `sig` when it runs, after the for loop has left
\* it at its last value.
LambdaSig(s) == "SIGTERM"

\* Signal s arrives and the loop runs the callback of line 33:
\* asyncio.create_task(shutdown_event_loop(sig, loop)).
SignalLoop(c, s) ==
  /\ host = "running" /\ Free(c)
  /\ handlers[s] = "loop"
  /\ ~LoopBusy
  /\ kind' = [kind EXCEPT ![c] = "seq"]
  /\ pc' = [pc EXCEPT ![c] = "created"]
  /\ sigArg' = [sigArg EXCEPT ![c] = LambdaSig(s)]
  /\ delivered' = [delivered EXCEPT ![c] = s]
  /\ UNCHANGED <<sharedVars, setupVars, procVars, loopVars, monVars, gateAtCall,
                 children, alive, todo, log, exc, outcome, treeRuns>>

\* ------------------------------------------------------ shutdown sequencer
\* Application code, or a callback of the loop (a timer, a new connection),
\* creates a task with asyncio.create_task.  Tasks are followed on the loop
\* path only: no other code looks at them.
TaskSpawn(t) ==
  /\ host = "running" /\ ~LoopBusy
  /\ handlers["SIGTERM"] = "loop"
  /\ tstate[t] = "unborn"
  /\ tstate' = [tstate EXCEPT ![t] = "pending"]
  /\ UNCHANGED <<sharedVars, setupVars, procVars, ctxVars, cancelReq, seqCancel,
                 awaitApp, awaitSeq, pendingAtEnum, monVars>>

\* An application task reaches its end, on its own or after a cancellation
\* request (which it may honour at once, later, or after more awaits).
TaskFinish(t) ==
  /\ host = "running" /\ ~LoopBusy
  /\ tstate[t] = "pending"
  /\ tstate' = [tstate EXCEPT ![t] = "done"]
  /\ UNCHANGED <<sharedVars, setupVars, procVars, ctxVars, cancelReq, seqCancel,
                 awaitApp, awaitSeq, pendingAtEnum, monVars>>

\* A sequencer that does not touch the shutdown signal.
EventLeftToTrigger(ev) == ev

\* line 40: threading_stop_event.set()
EventAtEntry(ev) == TRUE

\* lines 38-40: the task's first step.  A task cancelled before its first
\* step gets CancelledError thrown in at the top and runs none of its body.
SeqBegin(c) ==
  /\ host = "running" /\ ~LoopBusy
  /\ kind[c] = "seq" /\ pc[c] = "created"
  /\ IF seqCancel[c]
       THEN /\ pc' = [pc EXCEPT ![c] = "done"]
            /\ outcome' = [outcome EXCEPT ![c] = "cancelled"]
            /\ UNCHANGED threading_stop_event
       ELSE /\ pc' = [pc EXCEPT ![c] = "cancel"]
            /\ threading_stop_event' = EventAtEntry(threading_stop_event)
            /\ UNCHANGED outcome
  /\ UNCHANGED <<termination_signal_handled, host, setupVars, procVars, loopVars,
                 monVars, kind, sigArg, delivered, gateAtCall, children, alive, todo,
                 log, exc, treeRuns>>

\* line 43: [t for t in asyncio.all_tasks(loop) if t is not asyncio.current_task()]
\* all_tasks holds the tasks that are not done.
OtherAppTasks == {t \in Tasks : tstate[t] = "pending"}
OtherSeqTasks(c) ==
  {d \in Ctx \ {c} : kind[d] = "seq" /\ pc[d] \in {"created", "gather"}}

\* lines 43-48: cancel every other task, then suspend on gather(*tasks)
SeqCancel(c) ==
  /\ host = "running" /\ pc[c] = "cancel"
  /\ cancelReq' = [t \in Tasks |-> cancelReq[t] \/ t \in OtherAppTasks]
  /\ seqCancel' = [d \in Ctx |-> seqCancel[d] \/ d \in OtherSeqTasks(c)]
  /\ awaitApp' = [awaitApp EXCEPT ![c] = OtherAppTasks]
  /\ awaitSeq' = [awaitSeq EXCEPT ![c] = OtherSeqTasks(c)]
  /\ pendingAtEnum' = [pendingAtEnum EXCEPT ![c] = {t \in Tasks : tstate[t] = "pending"}]
  /\ pc' = [pc EXCEPT ![c] = "gather"]
  /\ UNCHANGED <<sharedVars, setupVars, procVars, monVars, tstate, kind, sigArg,
                 delivered, gateAtCall, children, alive, todo, log, exc, outcome,
                 treeRuns>>

\* line 48: the gather is over when every awaited task is done.
GatherDone(c) ==
  /\ \A t \in awaitApp[c] : tstate[t] = "done"
  /\ \A d \in awaitSeq[c] : pc[d] = "done"

\* A cancelled sequencer that stops waiting at once.
AwaitEndsOnCancel(c) ==
  \/ \A t \in awaitApp[c] : tstate[t] = "done"
  \/ seqCancel[c]

\* lines 48-50: the await ends when the gather is over.  Cancelling a task
\* that awaits a gather cancels the gather's children; the gather, and with
\* it the await, still ends only when every child is done, then with
\* CancelledError, which line 49 passes over.
AwaitEnds(c) == GatherDone(c)

\* A CancelledError that leaves the coroutine.
CancelPropagates(cancelled) == IF cancelled THEN "done" ELSE "read"

\* lines 49-52: CancelledError is passed over, so the await is followed by
\* handle_termination_signal whether the task was cancelled or not.
AfterAwait(cancelled) == "read"

\* lines 48-52: the task resumes and calls handle_termination_signal(signal=signal)
SeqWake(c) ==
  /\ host = "running" /\ ~LoopBusy
  /\ kind[c] = "seq" /\ pc[c] = "gather"
  /\ AwaitEnds(c)
  /\ pc' = [pc EXCEPT ![c] = AfterAwait(seqCancel[c])]
  /\ gateAtCall' = [gateAtCall EXCEPT ![c] = termination_signal_handled]
  /\ UNCHANGED <<sharedVars, setupVars, procVars, loopVars, monVars, kind, sigArg,
                 delivered, children, alive, todo, log, exc, outcome, treeRuns>>

SeqStep(c) ==
  \/ SeqBegin(c)
  \/ SeqCancel(c)
  \/ SeqWake(c)

\* -------------------------------------------------- parent liveness monitor
\* Outcomes of the parent check of lines 157-182: pid_exists returns True
\* ("alive") or False ("notfound"), or the check raises.
CheckOutcomes == {"alive", "notfound", "zombie", "nosuch", "denied", "error"}

\* A validation that lets zero through.
NegativeInterval(iv) == iv < 0

\* line 153: check_interval <= 0 (the interval is a number here)
BadInterval(iv) == iv <= 0

\* lines 142-154: monitor_loop(parent_pid, check_interval) is called (by the
\* thread of parent_process_monitor, or directly) and validates its interval.
MonitorStart(iv) ==
  /\ host = "running" /\ monPc = "off"
  /\ interval' = iv
  /\ monPc' = IF BadInterval(iv) THEN "raised" ELSE "loop"
  /\ UNCHANGED <<sharedVars, setupVars, procVars, ctxVars, loopVars, lastCheck>>

\* A loop that never looks at the shutdown signal.
LoopsForever(ev) == TRUE

\* line 156: the loop condition, not threading_stop_event.is_set()
LoopGoesOn(ev) == ~ev

\* line 156: while not threading_stop_event.is_set():
MonitorLoop ==
  /\ host = "running" /\ monPc = "loop"
  /\ monPc' = IF LoopGoesOn(threading_stop_event) THEN "check" ELSE "ended"
  /\ lastCheck' = "none"
  /\ UNCHANGED <<sharedVars, setupVars, procVars, ctxVars, loopVars, interval>>

\* Every exit with status 0.
ExitOfAlwaysZero(o) == IF o = "alive" THEN "none" ELSE "exit0"

\* lines 158-182: the os._exit status of each outcome of the check, "none"
\* when the loop goes on.
ExitOf(o) ==
  CASE o = "alive" -> "none"
    [] o \in {"notfound", "zombie", "nosuch", "denied"} -> "exit0"
    [] OTHER -> "exit1"

\* lines 157-182: one parent check
MonitorCheck ==
  /\ host = "running" /\ monPc = "check"
  /\ \E o \in CheckOutcomes :
       /\ lastCheck' = o
       /\ IF ExitOf(o) = "none"
            THEN /\ monPc' = "wait"
                 /\ UNCHANGED <<host, procs>>
            ELSE /\ monPc' = "exited"
                 /\ host' = ExitOf(o)
                 /\ procs' = IF selfRoot THEN [procs EXCEPT ![Root] = "gone"] ELSE procs
  /\ UNCHANGED <<termination_signal_handled, threading_stop_event, setupVars,
                 ctxVars, loopVars, interval>>

\* A sleep of check_interval seconds, which returns nothing.
SleepReturns(ev) == FALSE

\* line 185: Event.wait(timeout) returns as soon as the event is set, with
\* True; when the timeout passes with the event clear, with False.
WaitReturns(ev) == ev

\* line 185: if threading_stop_event.wait(timeout=check_interval): break
MonitorWait ==
  /\ host = "running" /\ monPc = "wait"
  /\ monPc' = IF WaitReturns(threading_stop_event) THEN "ended" ELSE "loop"
  /\ UNCHANGED <<sharedVars, setupVars, procVars, ctxVars, loopVars, interval,
                 lastCheck>>

MonitorStep ==
  \/ \E iv \in Intervals : MonitorStart(iv)
  \/ MonitorLoop
  \/ MonitorCheck
  \/ MonitorWait

\* ------------------------------------------------------------ specifications
InitCommon ==
  /\ platform \in {"windows", "posix"}
  /\ handlers = [s \in Signals |-> "default"]
  /\ termination_signal_handled = FALSE
  /\ threading_stop_event = FALSE
  /\ host = "running"
  /\ procs = [p \in Procs |-> "running"]
  /\ kind = [c \in Ctx |-> "none"]
  /\ pc = [c \in Ctx |-> "idle"]
  /\ sigArg = [c \in Ctx |-> "None"]
  /\ delivered = [c \in Ctx |-> "None"]
  /\ gateAtCall = [c \in Ctx |-> FALSE]
  /\ children = [c \in Ctx |-> {}]
  /\ alive = [c \in Ctx |-> {}]
  /\ todo = [c \in Ctx |-> {}]
  /\ log = [c \in Ctx |-> <<>>]
  /\ exc = [c \in Ctx |-> "none"]
  /\ outcome = [c \in Ctx |-> ""]
  /\ treeRuns = 0
  /\ tstate = [t \in Tasks |-> "unborn"]
  /\ cancelReq = [t \in Tasks |-> FALSE]
  /\ seqCancel = [c \in Ctx |-> FALSE]
  /\ awaitApp = [c \in Ctx |-> {}]
  /\ awaitSeq = [c \in Ctx |-> {}]
  /\ pendingAtEnum = [c \in Ctx |-> {}]
  /\ monPc = "off"
  /\ interval = 1
  /\ lastCheck = "none"

\* The host program: the tree's root is os.getpid() (line 66).
Init ==
  /\ InitCommon
  /\ selfRoot = TRUE
  /\ denied \in SUBSET Children

Next ==
  \/ AddSignalHandlers
  \/ AddSignalHandlersInLoop
  \/ \E c \in Ctx, s \in Signals : SignalDirect(c, s)
  \/ \E c \in Ctx, s \in Signals : SignalLoop(c, s)
  \/ \E c \in Ctx : SeqStep(c)
  \/ \E c \in Ctx : HandlerStep(c)
  \/ \E t \in Tasks : TaskSpawn(t)
  \/ \E t \in Tasks : TaskFinish(t)
  \/ \E p \in Procs : ProcExit(p)
  \/ MonitorStep

Spec == Init /\ [][Next]_vars

\* One call of terminate_process_tree(pid) on the tree of another process.
CallTree(c) ==
  /\ \A d \in Ctx : kind[d] = "none"
  /\ Free(c)
  /\ kind' = [kind EXCEPT ![c] = "direct"]
  /\ pc' = [pc EXCEPT ![c] = "resolve"]
  /\ treeRuns' = treeRuns + 1
  /\ UNCHANGED <<sharedVars, setupVars, procVars, loopVars, monVars, sigArg,
                 delivered, gateAtCall, children, alive, todo, log, exc, outcome>>

InitTree ==
  /\ InitCommon
  /\ selfRoot = FALSE
  /\ denied \in SUBSET Procs

NextTree ==
  \/ \E c \in Ctx : CallTree(c)
  \/ \E c \in Ctx : TreeStep(c)
  \/ \E p \in Procs : ProcExit(p)

SpecTree == InitTree /\ [][NextTree]_vars

\* The sequenced path alone: a POSIX host whose loop runs the application
\* tasks and the shutdown_event_loop tasks that signals create.
InitSeq ==
  /\ InitCommon
  /\ platform = "posix"
  /\ selfRoot = TRUE
  /\ denied \in SUBSET Children

NextSeq ==
  \/ AddSignalHandlersInLoop
  \/ \E c \in Ctx, s \in Signals : SignalLoop(c, s)
  \/ \E c \in Ctx : SeqStep(c)
  \/ \E c \in Ctx : HandlerStep(c)
  \/ \E t \in Tasks : TaskSpawn(t)
  \/ \E t \in Tasks : TaskFinish(t)
  \/ \E p \in Procs : ProcExit(p)

\* The event loop runs every step that is ready (lines 37-52), synchronous
\* code goes on (every psutil wait has a timeout, lines 98 and 114), and a
\* task that was asked to cancel reaches its end.
FairSeq ==
  /\ \A c \in Ctx : WF_vars(SeqStep(c)) /\ WF_vars(HandlerStep(c))
  /\ \A t \in Tasks : WF_vars(cancelReq[t] /\ TaskFinish(t))

SpecSeq == InitSeq /\ [][NextSeq]_vars /\ FairSeq

\* ------------------------------------------------------------------ claims
Called(c) == pc[c] \in HandlerPcs \/ outcome[c] \in {"returned", "raised"}

Before(c, k, p, i) == \E j \in 1..(i - 1) : log[c][j] = Ev(k, p)

\* Requests and attempts addressed to the root by terminate_process.
RootKinds == {"terminate", "terminate_gone", "terminate_failed", "wait_timeout",
              "kill", "kill_gone", "kill_failed"}
KillKinds == {"kill", "kill_gone", "kill_failed"}

\* C1: however many invocations of handle_termination_signal overlap,
\* terminate_process_tree is executed exactly once: never twice, and once when
\* every invocation made so far has returned.
C1_TreeTerminationExactlyOnce ==
  /\ treeRuns <= 1
  /\ ((\E c \in Ctx : Called(c)) /\ (\A c \in Ctx : pc[c] \notin HandlerPcs)
        => treeRuns = 1)

\* C2: a call of handle_termination_signal made when the gate is already set
\* is a no-op: its only step is the return, and that step sends no request,
\* and changes neither the gate nor the shutdown signal nor any process.
C2_LaterCallIsNoOp ==
  [][\A c \in Ctx :
       (gateAtCall[c] /\ pc[c] \in HandlerPcs /\ pc'[c] # pc[c])
         => /\ pc'[c] = "done" /\ outcome'[c] = "returned"
            /\ UNCHANGED <<termination_signal_handled, threading_stop_event, host,
                           procs, log, treeRuns>>]_vars

C2_Witness ==
  \E c, d \in Ctx :
    /\ gateAtCall[c] /\ pc[c] = "done" /\ outcome[c] = "returned" /\ log[c] = <<>>
    /\ Has(d, "terminate", Root) /\ host = "running"

\* C3 as stated: on the sequenced path, terminate_process_tree is never in
\* progress for a shutdown_event_loop task while an application task is
\* unfinished.
C3_NoTaskUnfinished ==
  \A c \in Ctx :
    (kind[c] = "seq" /\ pc[c] \in TreePcs) => \A t \in Tasks : tstate[t] # "pending"

\* C3 as amended: on the sequenced path, for any number of signals, every
\* application task that was pending when a shutdown_event_loop task
\* enumerated the tasks has been requested to cancel and is done before that
\* task's handle_termination_signal begins terminate_process_tree.
C3_DrainBeforeTermination ==
  \A c \in Ctx :
    (kind[c] = "seq" /\ pc[c] \in TreePcs)
      => \A t \in pendingAtEnum[c] : cancelReq[t] /\ tstate[t] = "done"

C3_Witness ==
  \E c \in Ctx :
    /\ kind[c] = "seq" /\ pc[c] \in TreePcs
    /\ seqCancel[c] /\ pendingAtEnum[c] # {}

Tried(c, p, i) == Before(c, "terminate", p, i) \/ Before(c, "terminate_gone", p, i)
KillTried(c, p, i) == Before(c, "kill", p, i) \/ Before(c, "kill_gone", p, i)
End(c) == Len(log[c]) + 1

\* The whole batch of context c is behind position i of its log: every
\* enumerated descendant had its graceful request (or was gone), the grace
\* wait is over, every descendant alive after it had its kill (or was gone).
BatchDoneBefore(c, i) ==
  /\ \A p \in children[c] : Tried(c, p, i)
  /\ Before(c, "wait_procs", Root, i)
  /\ \A p \in alive[c] : KillTried(c, p, i)

\* C4: in an execution of terminate_process_tree, whatever is addressed to
\* the root (is_running aside: terminate, wait, kill) comes after the whole
\* batch of the descendants, and nothing of the batch comes after it.
C4_DescendantsBeforeRoot ==
  \A c \in Ctx : \A i \in 1..Len(log[c]) :
    (log[c][i][2] = Root /\ log[c][i][1] \in RootKinds)
      => /\ BatchDoneBefore(c, i)
         /\ \A j \in (i + 1)..Len(log[c]) : log[c][j][2] = Root /\ log[c][j][1] \in RootKinds

C4_Witness ==
  \E c \in Ctx :
    /\ Cardinality(children[c]) >= 2
    /\ \E p \in children[c] : Has(c, "kill", p)
    /\ Has(c, "terminate", Root)

\* C5: in a batch, no kill is attempted on any member before the graceful
\* request has been issued to, or skipped for, every member, and the batch has
\* one wait, between the last graceful request and the first kill.
C5_GracefulBeforeForceful ==
  \A c \in Ctx :
    /\ \A i \in 1..Len(log[c]) :
         (log[c][i][1] \in KillKinds /\ log[c][i][2] \in Children)
           => /\ \A p \in children[c] : Tried(c, p, i)
              /\ Before(c, "wait_procs", Root, i)
    /\ Cardinality({i \in 1..Len(log[c]) : log[c][i] = Ev("wait_procs", Root)}) <= 1
    /\ \A i \in 1..Len(log[c]) :
         log[c][i] = Ev("wait_procs", Root) => \A p \in children[c] : Tried(c, p, i)

C5_Witness ==
  \E c \in Ctx :
    /\ Cardinality(children[c]) >= 2
    /\ \A p \in children[c] : Has(c, "terminate", p) /\ Has(c, "kill", p)

\* C6: a kill comes only after the grace wait and only for a process that
\* was alive at the end of it; a process that exited meanwhile is passed over
\* without error; once the wait is over every process alive at its end gets
\* its kill (or is found gone), in a batch and for the single root.
C6_KillOnlyAfterGrace ==
  \A c \in Ctx :
    /\ \A i \in 1..Len(log[c]) :
         (log[c][i][1] \in KillKinds /\ log[c][i][2] \in Children)
           => /\ Before(c, "wait_procs", Root, i)
              /\ log[c][i][2] \in alive[c]
              /\ log[c][i][1] # "kill_failed"
    /\ \A i \in 1..Len(log[c]) :
         (log[c][i][1] \in KillKinds /\ log[c][i][2] = Root)
           => Before(c, "wait_timeout", Root, i) /\ log[c][i][1] # "kill_failed"
    /\ (Has(c, "wait_procs", Root) /\ pc[c] \notin {"wait", "kill"})
         => \A p \in alive[c] : KillTried(c, p, End(c))
    /\ (Has(c, "wait_timeout", Root) /\ pc[c] # "rkill")
         => KillTried(c, Root, End(c))
    /\ exc[c] = "NoSuchProcess" => log[c] = <<>>

C6_Witness ==
  \E c \in Ctx : \E p, q \in children[c] :
    /\ Has(c, "terminate", p) /\ Has(c, "kill", p)
    /\ Has(c, "terminate", q) /\ q \notin alive[c]
    /\ Has(c, "kill", Root)

\* c's execution of terminate_process_tree went through the whole protocol.
FullProtocol(c) ==
  /\ BatchDoneBefore(c, End(c))
  /\ \A p \in children[c] : procs[p] = "gone"
  /\ procs[Root] = "gone"

\* C7 as stated: whichever process vanishes at whichever step, root included,
\* no error is raised and every other process is handled as usual, so that a
\* pass that met no failure other than vanished processes leaves no
\* descendant running without its terminate request.
C7_VanishedAlwaysTolerated ==
  \A c \in Ctx :
    /\ outcome[c] # "raised"
    /\ (pc[c] = "done" /\ exc[c] \in {"none", "NoSuchProcess"})
         => \A p \in Children : procs[p] = "running" => Has(c, "terminate", p)

\* C7 as amended: no vanished process raises an error; a descendant that
\* vanishes at any step, or the root vanishing after the enumeration, never
\* ends the pass (the others get the two-phase protocol, the root comes
\* last); the root vanishing before or during resolution or enumeration ends
\* the pass silently before any process is signalled.
C7_VanishedTolerated ==
  \A c \in Ctx :
    /\ outcome[c] # "raised"
    /\ exc[c] = "NoSuchProcess"
         => log[c] = <<>> /\ children[c] = {} /\ procs[Root] = "gone"
    /\ (pc[c] = "done" /\ exc[c] = "none") => FullProtocol(c)

C7_Witness ==
  \E c \in Ctx : \E p, q \in children[c] :
    /\ pc[c] = "done" /\ exc[c] = "none"
    /\ Has(c, "terminate_gone", p)
    /\ Has(c, "terminate", q) /\ Has(c, "kill_gone", q)
    /\ Has(c, "terminate_gone", Root)

\* C8: a permission-denied failure on one process skips that process only:
\* when the pass is over every other enumerated descendant has had its
\* graceful request (or was gone) and the root has been terminated.
C8_DeniedIsSkipped ==
  \A c \in Ctx :
    (pc[c] = "done" /\ children[c] \cap denied # {} /\ Root \notin denied)
      => /\ \A p \in children[c] \ denied : Tried(c, p, End(c))
         /\ procs[Root] = "gone"

\* C9: whatever fails inside terminate_process_tree (enumeration, a
\* terminate, a kill), handle_termination_signal returns normally: no
\* context ends with an exception raised to its caller, and an execution
\* that an exception ended has returned.
C9_HandlerNeverThrows ==
  \A c \in Ctx :
    /\ outcome[c] # "raised"
    /\ exc[c] # "none" => pc[c] = "done" /\ outcome[c] = "returned"

C9_Witness ==
  \E c, d \in Ctx :
    /\ exc[c] = "AccessDenied" /\ outcome[c] = "returned"
    /\ exc[d] = "Error" /\ outcome[d] = "returned"

\* C10: the outcome of the parent check of an iteration decides the exit:
\* not found, zombie, vanished or access denied force exit with status 0 at
\* once, any other error exit with status 1, and after a check that found
\* the parent alive the monitor is at its wait or beyond it and has forced
\* no exit.  The monitor is the only source of these exits.
C10_ExitDecidedByCheck ==
  /\ lastCheck \in {"notfound", "zombie", "nosuch", "denied"}
       => host = "exit0" /\ monPc = "exited"
  /\ lastCheck = "error" => host = "exit1" /\ monPc = "exited"
  /\ lastCheck = "alive"
       => monPc \in {"wait", "loop", "ended"} /\ host \notin {"exit0", "exit1"}
  /\ host \in {"exit0", "exit1"}
       => monPc = "exited" /\ lastCheck \notin {"none", "alive"}

C10_Witness ==
  /\ monPc = "exited" /\ host = "exit1" /\ lastCheck = "error"
  /\ \E c \in Ctx : pc[c] \in TreePcs

\* C11: whichever trigger ends the host (termination signal, monitor,
\* sequencer), the host has never exited while one of its descendants is
\* still running.
C11_NoDescendantOutlivesHost ==
  host # "running" => \A p \in Children : procs[p] = "gone"

\* C12: when the shutdown signal is set while monitor_loop is in its
\* between-check wait, the monitor's next step is the exit of the loop: no
\* other parent check, no forced exit, no return to the loop condition.
C12_EarlyWake ==
  [][(monPc = "wait" /\ threading_stop_event /\ monPc' # monPc)
       => /\ monPc' = "ended"
          /\ lastCheck' = lastCheck
          /\ host' \notin {"exit0", "exit1"}]_vars

C12_Witness ==
  /\ monPc = "ended" /\ lastCheck = "alive"
  /\ threading_stop_event /\ host = "running"

\* C13: monitor_loop called with an interval <= 0 raises at once: it is never
\* at the loop, a check or the wait, no check has been made, and the step
\* that raises forces no exit and leaves gate and shutdown signal unchanged.
C13_BadIntervalRaises ==
  [][/\ (monPc = "off" /\ monPc' # "off" /\ interval' <= 0)
          => /\ monPc' = "raised" /\ lastCheck' = "none"
             /\ UNCHANGED <<termination_signal_handled, threading_stop_event, host>>
     /\ monPc = "raised"
          => /\ monPc' = "raised" /\ lastCheck' = "none" /\ interval' <= 0
             /\ host' \notin {"exit0", "exit1"}]_vars

C13_Witness ==
  /\ monPc = "raised" /\ interval = 0
  /\ \E c \in Ctx : pc[c] \in HandlerPcs

\* C14: add_signal_handlers_in_loop registers by platform.  On Windows only
\* SIGTERM gets a handler, and a delivered signal runs
\* handle_termination_signal at once, with no task created or cancelled.
\* Elsewhere SIGINT and SIGTERM both get the loop's handler, and a delivered
\* signal only creates a shutdown_event_loop task: nothing of the termination
\* runs in that step.  SIGTERM has a handler on every platform.
C14_RegistrationByPlatform ==
  [][/\ AddSignalHandlersInLoop
          => /\ handlers'["SIGTERM"] # "default"
             /\ platform = "windows"
                  => handlers'["SIGINT"] = "default" /\ handlers'["SIGTERM"] = "direct"
             /\ platform # "windows" => \A s \in Signals : handlers'[s] = "loop"
     /\ \A c \in Ctx :
          (kind[c] = "none" /\ kind'[c] # "none")
            => IF platform = "windows"
                 THEN /\ kind'[c] = "direct" /\ pc'[c] = "read"
                      /\ delivered'[c] = "SIGTERM"
                      /\ UNCHANGED <<tstate, cancelReq, seqCancel>>
                 ELSE handlers["SIGINT"] = "loop"
                        => /\ kind'[c] = "seq" /\ pc'[c] = "created"
                           /\ UNCHANGED <<termination_signal_handled,
                                          threading_stop_event, procs, log, treeRuns>>
     /\ platform = "windows"
          => /\ \A c \in Ctx : kind'[c] # "seq"
             /\ \A t \in Tasks : ~cancelReq'[t]]_vars

C14_Witness ==
  /\ platform = "posix"
  /\ \E c, d \in Ctx :
       /\ kind[c] = "seq" /\ delivered[c] = "SIGINT"
       /\ kind[d] = "seq" /\ delivered[d] = "SIGTERM"

\* C15: in every run of shutdown_event_loop the shutdown signal is set
\* before cancellation is requested of any task and before the sequencer
\* suspends on the gather.
C15_SignalBeforeDrain ==
  ((\E c \in Ctx : kind[c] = "seq" /\ pc[c] \in {"cancel", "gather"})
     \/ (\E t \in Tasks : cancelReq[t])
     \/ (\E c \in Ctx : seqCancel[c]))
    => threading_stop_event

C15_Witness ==
  /\ \E c \in Ctx : kind[c] = "seq" /\ pc[c] = "gather" /\ awaitApp[c] # {}
  /\ \A c \in Ctx : pc[c] \notin HandlerPcs
  /\ monPc = "wait"

\* C17: the signal identity that shutdown_event_loop receives, and passes on
\* to handle_termination_signal, is the identity of the delivered signal.
C17_SignalIdentityPreserved ==
  \A c \in Ctx : kind[c] = "seq" => sigArg[c] = delivered[c]

\* C18: on the sequenced path and on the direct path, the shutdown signal is
\* set before the terminator resolves, enumerates or signals anything: no
\* context is inside terminate_process_tree, or has a request in its log,
\* while threading_stop_event is clear.
C18_SignalBeforeRequests ==
  \A c \in Ctx :
    (pc[c] \in TreePcs \/ log[c] # <<>>) => threading_stop_event

C18_Witness ==
  \E c \in Ctx : \E p \in Children :
    /\ kind[c] = "direct" /\ Has(c, "terminate", p) /\ Has(c, "kill", p)
    /\ \A d \in Ctx : kind[d] # "seq"
    /\ threading_stop_event

\* C19: once the shutdown signal is set, the monitor at its loop condition
\* or at its wait can only leave the loop, so it starts no new iteration; the
\* only check that can still complete is the one already past the loop
\* condition, after which the monitor is at the wait or has exited; and a
\* forced exit comes from a monitor that was at its check.
C19_NoNewIterationAfterSignal ==
  [][/\ (threading_stop_event /\ monPc \in {"loop", "wait"} /\ monPc' # monPc)
          => /\ monPc' = "ended"
             /\ host' \notin {"exit0", "exit1"}
     /\ (threading_stop_event /\ monPc = "check" /\ monPc' # monPc)
          => monPc' \in {"wait", "exited"}
     /\ (threading_stop_event /\ monPc = "ended") => monPc' = "ended"
     /\ (host = "running" /\ host' \in {"exit0", "exit1"}) => monPc = "check"
     /\ threading_stop_event => threading_stop_event']_vars

C19_Witness ==
  /\ threading_stop_event /\ monPc = "check" /\ host = "running"
  /\ \E c \in Ctx : kind[c] = "seq" /\ pc[c] = "gather"

\* C20: the gate and the shutdown signal are set-once: no step takes
\* termination_signal_handled from true to false or clears
\* threading_stop_event; a tree termination that an exception ended leaves
\* the gate set, and a trigger called with the gate set never enters
\* terminate_process_tree.
C20_SetOnce ==
  [][/\ termination_signal_handled => termination_signal_handled'
     /\ threading_stop_event => threading_stop_event'
     /\ \A c \in Ctx :
          /\ (exc'[c] # "none" \/ pc'[c] \in TreePcs) => termination_signal_handled'
          /\ gateAtCall'[c] => pc'[c] \notin TreePcs /\ log'[c] = <<>>]_vars

C20_Witness ==
  \E c, d \in Ctx :
    /\ exc[c] = "AccessDenied" /\ log[c] # <<>> /\ pc[c] = "done"
    /\ gateAtCall[d] /\ pc[d] = "done" /\ outcome[d] = "returned"
    /\ termination_signal_handled /\ host = "running"

\* C16: every run of shutdown_event_loop that has started its body
\* eventually calls handle_termination_signal, unless the host process ends
\* first; also when the run is cancelled while it awaits the tasks it
\* cancelled.  Cancelled tasks are assumed to finish.
C16_SequencerReachesTrigger ==
  \A c \in Ctx :
    (kind[c] = "seq" /\ pc[c] = "cancel") ~> (pc[c] = "read" \/ host # "running")

C16_Witness ==
  \E c \in Ctx :
    /\ kind[c] = "seq" /\ pc[c] = "read"
    /\ seqCancel[c] /\ awaitApp[c] # {}
    /\ host = "running"
====
